---- MODULE Spec2Model ----
(***************************************************************************)
(* Model of xgen-explicit-paths/XGen_ExplicitPaths.py.                     *)
(*                                                                         *)
(* A Python string is a sequence of one-character strings.  A Python value *)
(* passed as an argument is a record [type, val]; a value computed by a    *)
(* call that may raise is a record [exc, val].  The XGen scene of the host *)
(* (collections -> descriptions -> objects -> attributes) is the state.    *)
(***************************************************************************)
EXTENDS Integers, Sequences, FiniteSets, TLC

VARIABLES
    Maya,          \* xgg.Maya: the XGen plug-in is loaded
    palettes,      \* xg.palettes(): the collections of the scene, in order
    xgDataPath,    \* collection -> value of its "xgDataPath" attribute
    attrs,         \* <<collection, description, object, attr>> -> value
    run,           \* the last call of _zspc_xgen_paths_run
    prev,          \* the call before it
    nRuns,         \* number of calls made so far
    in_path,       \* argument of the last path normalization
    out_path       \* its result

vars == <<Maya, palettes, xgDataPath, attrs, run, prev, nRuns, in_path, out_path>>

(***************************************************************************)
(* Bounds.                                                                 *)
(***************************************************************************)
MaxRuns == 2       \* calls of _zspc_xgen_paths_run in one behaviour
MaxLen == 4        \* length of the paths normalized under SpecNorm

(***************************************************************************)
(* Python values.                                                          *)
(***************************************************************************)
PyStr(s) == [type |-> "str", val |-> s]
PyInt(s) == [type |-> "int", val |-> s]
PyEnum(s) == [type |-> "_ZspcXgenPathsMode", val |-> s]

Ok(s) == [exc |-> "none", val |-> s]
Raise(e) == [exc |-> e, val |-> <<>>]

EXPLICIT == PyEnum(<<"0">>)
RELATIVE == PyEnum(<<"1">>)

description_expression_string == <<"$", "{", "D", "E", "S", "C", "}">>
project_expression_string == <<"$", "{", "P", "R", "O", "J", "E", "C", "T", "}">>
xGen_collections == <<"x", "G", "e", "n", "/", "c", "o", "l", "l", "e", "c", "t", "i", "o", "n", "s", "/">>

(***************************************************************************)
(* Built-in string operations of Python used by the script.                *)
(***************************************************************************)
\* sub in s
Contains(s, sub) ==
    \E i \in 1..(Len(s) - Len(sub) + 1) : SubSeq(s, i, i + Len(sub) - 1) = sub

\* the number of places of s where an instance of sub starts
CountOcc(s, sub) ==
    Cardinality({i \in 1..(Len(s) - Len(sub) + 1) : SubSeq(s, i, i + Len(sub) - 1) = sub})

RECURSIVE Intersperse(_, _)
Intersperse(s, new) ==
    IF s = <<>> THEN new ELSE new \o <<Head(s)>> \o Intersperse(Tail(s), new)

\* s.replace(old, new) with only the leftmost instance of old replaced
replace_first(s, old, new) ==
    IF \E i \in 1..(Len(s) - Len(old) + 1) : SubSeq(s, i, i + Len(old) - 1) = old
    THEN LET i == CHOOSE j \in 1..(Len(s) - Len(old) + 1) :
                      /\ SubSeq(s, j, j + Len(old) - 1) = old
                      /\ \A k \in 1..(j - 1) : SubSeq(s, k, k + Len(old) - 1) # old
         IN SubSeq(s, 1, i - 1) \o new \o SubSeq(s, i + Len(old), Len(s))
    ELSE s

\* s.replace(old, new): every non-overlapping instance of old, found from the
\* left, is replaced by new
RECURSIVE replace(_, _, _)
replace(s, old, new) ==
    IF old = <<>> THEN Intersperse(s, new)
    ELSE IF Len(s) < Len(old) THEN s
    ELSE IF SubSeq(s, 1, Len(old)) = old
         THEN new \o replace(SubSeq(s, Len(old) + 1, Len(s)), old, new)
         ELSE <<Head(s)>> \o replace(Tail(s), old, new)

(***************************************************************************)
(* _path_to_forward_slashes and the trailing-slash step.                   *)
(***************************************************************************)
\* the type check of _path_to_forward_slashes left out
type_check_missing(in) == TRUE

\* type(in_path) is str
type_is_str(in) == in.type = "str"

RECURSIVE forward_slashes(_)
forward_slashes(s) ==
    IF s = <<>> THEN <<>>
    ELSE <<(IF Head(s) # "\\" THEN Head(s) ELSE "/")>> \o forward_slashes(Tail(s))

_path_to_forward_slashes(in) ==
    IF ~type_is_str(in) THEN Raise("TypeError") ELSE Ok(forward_slashes(in.val))

\* root_path if (root_path[-1] == "/") else (root_path + "/")
trailing_slash(root_path) ==
    IF root_path = <<>> THEN Raise("IndexError")
    ELSE IF root_path[Len(root_path)] = "/" THEN Ok(root_path)
    ELSE Ok(root_path \o <<"/">>)

\* the first two statements of _zspc_xgen_paths_run
normalize(project_path) ==
    LET r == _path_to_forward_slashes(project_path)
    IN IF r.exc # "none" THEN r ELSE trailing_slash(r.val)

(***************************************************************************)
(* The scene of the host application.                                      *)
(***************************************************************************)
cC == <<"c">>          \* a collection with one description
cK == <<"k">>          \* a collection whose description has no active object
dD == <<"d">>
dE == <<"e">>

Collections == {cC, cK}

\* xg.descriptions(collection)
descriptions(collection) == IF collection = cC THEN <<dD>> ELSE <<dE>>

\* xg.objects(collection, description, True)
objects(collection, description) ==
    IF collection = cC THEN <<"SplinePrimitive">> ELSE <<>>

\* xg.allAttrs(collection, description, object)
allAttrs(collection, description, object) == <<"cacheFileName", "pointDir">>

Slots == {<<cC, dD, "SplinePrimitive", "cacheFileName">>,
          <<cC, dD, "SplinePrimitive", "pointDir">>}

(***************************************************************************)
(* _zspc_xgen_paths_run.                                                   *)
(***************************************************************************)
\* if isinstance(mode, int): mode = _ZspcXgenPathsMode(mode)
convert_mode(mode) ==
    IF mode.type = "int"
    THEN IF mode.val = <<"0">> THEN [exc |-> "none", mode |-> EXPLICIT]
         ELSE IF mode.val = <<"1">> THEN [exc |-> "none", mode |-> RELATIVE]
         ELSE [exc |-> "ValueError", mode |-> mode]
    ELSE [exc |-> "none", mode |-> mode]

\* the explicit write of a collection done with the wrong variable
newcollection_path_wrong(mode, collection_path, root_path) ==
    IF mode = EXPLICIT THEN root_path
    ELSE replace(collection_path, root_path, project_expression_string)

\* the value written to xgDataPath in mode EXPLICIT or RELATIVE
newcollection_path(mode, collection_path, root_path) ==
    IF mode = EXPLICIT THEN replace(collection_path, project_expression_string, root_path)
    ELSE replace(collection_path, root_path, project_expression_string)

\* the path built without the "/" between collection and description
path_of_no_separator(root_path, collection, description) ==
    root_path \o xGen_collections \o collection \o description

\* path = root_path + "xGen/collections/" + collection + "/" + description
path_of(root_path, collection, description) ==
    root_path \o xGen_collections \o collection \o <<"/">> \o description

\* the search string taken to be the placeholder in both modes
search_string_placeholder(mode, path) == description_expression_string

\* search_string = path if mode == RELATIVE else description_expression_string
search_string(mode, path) ==
    IF mode = RELATIVE THEN path ELSE description_expression_string

\* the body of "for attr in attrs"; st = [xg, at, calls]
attr_body(st, mode, root_path, collection, description, object, attr) ==
    LET slot == <<collection, description, object, attr>>
        value == st.at[slot]
        path == path_of(root_path, collection, description)
        read == [st EXCEPT !.calls = Append(@, "getAttr")]
    IN IF ~Contains(value, search_string(mode, path)) THEN read
       ELSE IF mode = EXPLICIT
            THEN [read EXCEPT
                    !.at[slot] = replace(value, description_expression_string, path),
                    !.calls = Append(@, "setAttr")]
       ELSE IF mode = RELATIVE
            THEN [read EXCEPT
                    !.at[slot] = replace(value, path, description_expression_string),
                    !.calls = Append(@, "setAttr")]
       ELSE read

RECURSIVE for_attrs(_, _, _, _, _, _, _)
for_attrs(st, mode, root_path, collection, description, object, as) ==
    IF as = <<>> THEN st
    ELSE for_attrs(attr_body(st, mode, root_path, collection, description, object, Head(as)),
                   mode, root_path, collection, description, object, Tail(as))

RECURSIVE for_objects(_, _, _, _, _, _)
for_objects(st, mode, root_path, collection, description, os) ==
    IF os = <<>> THEN st
    ELSE for_objects(for_attrs(st, mode, root_path, collection, description, Head(os),
                               allAttrs(collection, description, Head(os))),
                     mode, root_path, collection, description, Tail(os))

RECURSIVE for_descriptions(_, _, _, _, _)
for_descriptions(st, mode, root_path, collection, ds) ==
    IF ds = <<>> THEN st
    ELSE for_descriptions(for_objects(st, mode, root_path, collection, Head(ds),
                                      objects(collection, Head(ds))),
                          mode, root_path, collection, Tail(ds))

\* the body of "for collection in collections"
collection_body(st, mode, root_path, collection) ==
    LET collection_path == st.xg[collection]
        read == [st EXCEPT !.calls = Append(@, "getAttr")]
        written == IF mode \in {EXPLICIT, RELATIVE}
                   THEN [read EXCEPT
                           !.xg[collection] = newcollection_path(mode, collection_path, root_path),
                           !.calls = Append(@, "setAttr")]
                   ELSE read
    IN for_descriptions(written, mode, root_path, collection, descriptions(collection))

RECURSIVE for_collections(_, _, _, _)
for_collections(st, mode, root_path, cs) ==
    IF cs = <<>> THEN st
    ELSE for_collections(collection_body(st, mode, root_path, Head(cs)),
                         mode, root_path, Tail(cs))

\* the refresh of the description editor left out
refresh_missing(st) == st

\* de = xgg.DescriptionEditor; de.refresh("Full")
refresh(st) == [st EXCEPT !.calls = Append(@, "refresh")]

\* the outcome of one call: [outcome, mode, xg, at, calls]
run_result(mode, project_path) ==
    LET n == normalize(project_path)
        m == convert_mode(mode)
        st0 == [xg |-> xgDataPath, at |-> attrs, calls |-> <<>>]
        abort(e, calls) ==
            [outcome |-> e, mode |-> m.mode, xg |-> xgDataPath, at |-> attrs, calls |-> calls]
    IN IF n.exc # "none" THEN abort(n.exc, <<>>)
       ELSE IF m.exc # "none" THEN abort(m.exc, <<>>)
       ELSE IF ~Maya THEN abort("XGenError", <<"error">>)
       ELSE LET st == refresh(for_collections(st0, m.mode, n.val, palettes))
            IN [outcome |-> "ok", mode |-> m.mode, xg |-> st.xg, at |-> st.at,
                calls |-> st.calls]

(***************************************************************************)
(* Inputs.                                                                 *)
(***************************************************************************)
\* a string literal as a sequence of characters
S_a == <<"a">>
S_x == <<"x">>
S_slash == <<"/">>
S_semicolon == <<";">>
S_p_backslash == <<"p", "\\">>                     \* p\ 
S_p_slash == <<"p", "/">>                          \* p/
\* p/xGen/collections/c/d
S_abs == <<"p", "/", "x", "G", "e", "n", "/", "c", "o", "l", "l", "e", "c", "t", "i", "o",
           "n", "s", "/", "c", "/", "d">>

\* the project_path arguments
Paths ==
    { PyInt(<<"4", "2">>),                          \* 42, not a string
      PyStr(<<>>),                                  \* ""
      PyStr(S_p_backslash),                         \* "p\\"
      PyStr(S_slash),                               \* "/"
      PyStr(project_expression_string \o S_slash) } \* "${PROJECT}/"

\* the mode arguments
Modes == { EXPLICIT, RELATIVE, PyInt(<<"1">>), PyInt(<<"2">>), PyStr(S_x) }

\* the values of a collection's xgDataPath
DataPathValues ==
    { project_expression_string \o S_x \o S_slash,  \* ${PROJECT}x/
      S_p_slash \o S_x \o S_slash,                  \* p/x/
      S_x }                                         \* x

\* the values of an object's first attribute
AttrValues ==
    { description_expression_string \o S_slash \o S_a,          \* ${DESC}/a
      S_abs \o S_slash \o S_a,                                  \* p/xGen/collections/c/d/a
      S_a,                                                      \* a
      description_expression_string \o S_semicolon \o S_abs,   \* ${DESC};p/xGen/collections/c/d
      description_expression_string \o description_expression_string }  \* ${DESC}${DESC}

\* the values of an object's second attribute
AttrValues2 == { S_a, description_expression_string }

Scenes == { <<>>, <<cC>>, <<cC, cK>> }

NormChars == {"\\", "/", "a"}
NormInputs ==
    {PyInt(<<"4", "2">>)} \cup
    {PyStr(s) : s \in UNION {[1..n -> NormChars] : n \in 0..MaxLen}}

(***************************************************************************)
(* The state machine.                                                      *)
(***************************************************************************)
NoRun(xg, at) ==
    [mode |-> EXPLICIT, project_path |-> PyStr(<<>>), outcome |-> "none",
     calls |-> <<>>, pre_xg |-> xg, pre_attrs |-> at, Maya |-> FALSE]

Init ==
    /\ Maya \in BOOLEAN
    /\ palettes \in Scenes
    /\ xgDataPath \in [Collections -> DataPathValues]
    /\ \A c \in Collections : c \notin {palettes[i] : i \in 1..Len(palettes)} =>
           xgDataPath[c] = S_x
    /\ xgDataPath[cK] \in {S_x, project_expression_string \o S_x \o S_slash}
    /\ attrs \in [Slots -> AttrValues \cup AttrValues2]
    /\ attrs[<<cC, dD, "SplinePrimitive", "cacheFileName">>] \in
           (IF palettes = <<>> THEN {S_a} ELSE AttrValues)
    /\ attrs[<<cC, dD, "SplinePrimitive", "pointDir">>] \in
           (IF palettes = <<>> THEN {S_a} ELSE AttrValues2)
    /\ run = NoRun(xgDataPath, attrs)
    /\ prev = NoRun(xgDataPath, attrs)
    /\ nRuns = 0
    /\ in_path = PyStr(<<>>)
    /\ out_path = Raise("unset")

\* one call _zspc_xgen_paths_run(mode, project_path)
Run(mode, project_path) ==
    /\ nRuns < MaxRuns
    /\ LET r == run_result(mode, project_path)
       IN /\ xgDataPath' = r.xg
          /\ attrs' = r.at
          /\ run' = [mode |-> r.mode, project_path |-> project_path,
                     outcome |-> r.outcome, calls |-> r.calls,
                     pre_xg |-> xgDataPath, pre_attrs |-> attrs, Maya |-> Maya]
    /\ prev' = run
    /\ nRuns' = nRuns + 1
    /\ in_path' = project_path
    /\ out_path' = normalize(project_path)
    /\ UNCHANGED <<Maya, palettes>>

Next == \E mode \in Modes, project_path \in Paths : Run(mode, project_path)

Spec == Init /\ [][Next]_vars

(***************************************************************************)
(* Path normalization alone, over every short path.                        *)
(***************************************************************************)
InitNorm ==
    /\ Maya = TRUE
    /\ palettes = <<>>
    /\ xgDataPath = [c \in Collections |-> S_x]
    /\ attrs = [s \in Slots |-> S_a]
    /\ run = NoRun(xgDataPath, attrs)
    /\ prev = NoRun(xgDataPath, attrs)
    /\ nRuns = 0
    /\ in_path \in NormInputs
    /\ out_path = Raise("unset")

\* root_path = _path_to_forward_slashes(project_path) and the trailing slash
Normalize ==
    /\ nRuns = 0
    /\ nRuns' = 1
    /\ out_path' = normalize(in_path)
    /\ UNCHANGED <<Maya, palettes, xgDataPath, attrs, run, prev, in_path>>

NextNorm == Normalize

SpecNorm == InitNorm /\ [][NextNorm]_vars

(***************************************************************************)
(* Vocabulary of the properties.                                           *)
(***************************************************************************)
InScene(c) == \E i \in 1..Len(palettes) : palettes[i] = c
SceneSlots == {s \in Slots : InScene(s[1])}
SceneCollections == {c \in Collections : InScene(c)}

Called == run.outcome # "none"                 \* a call has been made
Completed == run.outcome = "ok"                \* it passed the XGen check
TwoCalls == prev.outcome # "none" /\ run.outcome # "none"
SamePath == prev.project_path = run.project_path

\* the normalized root path of the last call, when there is one
HasRoot == out_path.exc = "none"
Root == out_path.val

\* root_path + "xGen/collections/" + collection + "/" + description, spelled
\* out for the owners of a slot
AbsPath(s) == Root \o xGen_collections \o s[1] \o <<"/">> \o s[2]

\* s with each instance of old, taken from the left, replaced by new
RECURSIVE EachReplaced(_, _, _)
EachReplaced(s, old, new) ==
    IF Len(s) < Len(old) THEN s
    ELSE IF \A i \in 1..Len(old) : s[i] = old[i]
         THEN new \o EachReplaced([i \in 1..(Len(s) - Len(old)) |-> s[i + Len(old)]], old, new)
         ELSE <<s[1]>> \o EachReplaced([i \in 1..(Len(s) - 1) |-> s[i + 1]], old, new)

HasChar(s, ch) == \E i \in 1..Len(s) : s[i] = ch
\* a replacement string that can be no part of a placeholder token
Plain(s) == ~HasChar(s, "$") /\ ~HasChar(s, "}")

Unchanged == xgDataPath = run.pre_xg /\ attrs = run.pre_attrs

(***************************************************************************)
(* Properties.                                                             *)
(***************************************************************************)

\* C6: for every string project_path, normalization yields a root path that
\* contains no backslash and ends with "/".
C6_NormalizedShape ==
    (nRuns = 1 /\ in_path.type = "str") =>
        /\ out_path.exc = "none"
        /\ ~HasChar(out_path.val, "\\")
        /\ out_path.val # <<>>
        /\ out_path.val[Len(out_path.val)] = "/"

\* C7: for every string project_path, normalization yields a root path, and
\* normalizing that root path again returns the same string.
C7_NormalizeIdempotent ==
    (nRuns = 1 /\ in_path.type = "str") =>
        /\ out_path.exc = "none"
        /\ normalize(PyStr(out_path.val)) = out_path

\* C8: a call whose project_path is not a string raises TypeError, whatever
\* the mode and xgg.Maya, with no attribute read or written and no refresh.
C8_NonStringTypeError ==
    (Called /\ run.project_path.type # "str") =>
        /\ run.outcome = "TypeError"
        /\ run.calls = <<>>
        /\ Unchanged

C8_Witness ==
    /\ Called
    /\ run.project_path.type # "str"
    /\ run.Maya
    /\ run.mode = EXPLICIT
    /\ run.outcome = "TypeError"
    /\ \E s \in SceneSlots : Contains(attrs[s], description_expression_string)

\* C3: with xgg.Maya false, a call with a string project_path (and mode
\* EXPLICIT or RELATIVE) reports the error "XGen isn't
\* loaded!" and aborts: nothing is written and the description editor is
\* not refreshed.
C3_NotLoadedReported ==
    (Called /\ ~run.Maya /\ run.project_path.type = "str" /\ run.mode \in {EXPLICIT, RELATIVE}) =>
        /\ run.outcome = "XGenError"
        /\ run.calls = <<"error">>
        /\ Unchanged

\* C9: a call that passes the XGen check refreshes the description editor
\* exactly once, and the refresh is the last call it makes (no setAttr
\* follows it), also with no collection and with no matching attribute.
C9_RefreshOnceAtEnd ==
    Completed =>
        /\ run.calls # <<>>
        /\ \A i \in 1..Len(run.calls) : run.calls[i] = "refresh" <=> i = Len(run.calls)

C9_Witness ==
    /\ Completed
    /\ Len(palettes) = 2
    /\ \E i, j \in 1..Len(run.calls) :
          i < j /\ run.calls[i] = "setAttr" /\ run.calls[j] = "setAttr"
    /\ run.calls[Len(run.calls)] = "refresh"

C9_WitnessNoCollection ==
    /\ Completed
    /\ palettes = <<>>
    /\ run.calls = <<"refresh">>

\* C2: after a call in either mode, a value that contained neither its
\* placeholder token nor the absolute path computed for that call is equal
\* to its value before the call.
C2_NeitherTokenUnchanged ==
    Called =>
        /\ \A s \in SceneSlots :
              ( /\ ~Contains(run.pre_attrs[s], description_expression_string)
                /\ HasRoot => ~Contains(run.pre_attrs[s], AbsPath(s)) )
              => attrs[s] = run.pre_attrs[s]
        /\ \A c \in SceneCollections :
              ( /\ ~Contains(run.pre_xg[c], project_expression_string)
                /\ HasRoot => ~Contains(run.pre_xg[c], Root) )
              => xgDataPath[c] = run.pre_xg[c]

C2_Witness ==
    /\ Completed
    /\ run.mode \in {EXPLICIT, RELATIVE}
    /\ \E s \in SceneSlots :
          /\ ~Contains(run.pre_attrs[s], description_expression_string)
          /\ ~Contains(run.pre_attrs[s], AbsPath(s))
          /\ attrs[s] = run.pre_attrs[s]
    /\ \E c \in SceneCollections :
          /\ ~Contains(run.pre_xg[c], project_expression_string)
          /\ ~Contains(run.pre_xg[c], Root)
          /\ xgDataPath[c] = run.pre_xg[c]
    /\ \E s \in SceneSlots : attrs[s] # run.pre_attrs[s]

\* the substitutions of mode EXPLICIT, for every value of the scene
ExplicitSubstituted ==
    /\ \A s \in SceneSlots :
          Contains(run.pre_attrs[s], description_expression_string) =>
              attrs[s] = EachReplaced(run.pre_attrs[s], description_expression_string, AbsPath(s))
    /\ \A c \in SceneCollections :
          xgDataPath[c] = EachReplaced(run.pre_xg[c], project_expression_string, Root)

\* C4 as stated: after a completed call in mode EXPLICIT every value is the
\* value before with each placeholder replaced, and consequently none that
\* held its placeholder token still contains it.
C4_ExplicitNoTokenLeft ==
    (Completed /\ run.mode = EXPLICIT) =>
        /\ ExplicitSubstituted
        /\ \A s \in SceneSlots :
              Contains(run.pre_attrs[s], description_expression_string) =>
                  ~Contains(attrs[s], description_expression_string)
        /\ \A c \in SceneCollections :
              Contains(run.pre_xg[c], project_expression_string) =>
                  ~Contains(xgDataPath[c], project_expression_string)

\* C4 amended: after a completed call in mode EXPLICIT every object attribute
\* that contained "${DESC}" is the value before with each "${DESC}" replaced
\* by the absolute path, and every xgDataPath is the value before with each
\* "${PROJECT}" replaced by root_path; the value no longer contains its
\* placeholder token when the string substituted for it contains neither "$"
\* nor "}".
C4_ExplicitSubstitution ==
    (Completed /\ run.mode = EXPLICIT) =>
        /\ ExplicitSubstituted
        /\ \A s \in SceneSlots :
              (Contains(run.pre_attrs[s], description_expression_string) /\ Plain(AbsPath(s))) =>
                  ~Contains(attrs[s], description_expression_string)
        /\ \A c \in SceneCollections :
              (Contains(run.pre_xg[c], project_expression_string) /\ Plain(Root)) =>
                  ~Contains(xgDataPath[c], project_expression_string)

C4_Witness ==
    /\ Completed
    /\ run.mode = EXPLICIT
    /\ Plain(Root)
    /\ \E s \in SceneSlots :
          /\ CountOcc(run.pre_attrs[s], description_expression_string) = 2
          /\ CountOcc(attrs[s], AbsPath(s)) = 2
          /\ ~Contains(attrs[s], description_expression_string)
    /\ \E c \in SceneCollections :
          /\ Contains(run.pre_xg[c], project_expression_string)
          /\ Contains(xgDataPath[c], Root)
          /\ ~Contains(xgDataPath[c], project_expression_string)

\* the substitutions of mode RELATIVE, for every value of the scene
RelativeSubstituted ==
    /\ \A s \in SceneSlots :
          Contains(run.pre_attrs[s], AbsPath(s)) =>
              attrs[s] = EachReplaced(run.pre_attrs[s], AbsPath(s), description_expression_string)
    /\ \A c \in SceneCollections :
          xgDataPath[c] = EachReplaced(run.pre_xg[c], Root, project_expression_string)

\* C5 as stated: after a completed call in mode RELATIVE every value that
\* contained the absolute path has it replaced back by the placeholder token,
\* and mode EXPLICIT with the same project_path maps the result onto the
\* value before the call.
C5_RelativeInverse ==
    (Completed /\ run.mode = RELATIVE) =>
        /\ RelativeSubstituted
        /\ \A s \in SceneSlots :
              Contains(run.pre_attrs[s], AbsPath(s)) =>
                  EachReplaced(attrs[s], description_expression_string, AbsPath(s))
                      = run.pre_attrs[s]
        /\ \A c \in SceneCollections :
              Contains(run.pre_xg[c], Root) =>
                  EachReplaced(xgDataPath[c], project_expression_string, Root) = run.pre_xg[c]

\* C5 amended: after a completed call in mode RELATIVE every value that
\* contained the absolute path has it replaced back by the placeholder token;
\* mode EXPLICIT with the same project_path maps the result onto the value
\* before the call when that value did not already contain the placeholder
\* token.
C5_RelativeInverseNoToken ==
    (Completed /\ run.mode = RELATIVE) =>
        /\ RelativeSubstituted
        /\ \A s \in SceneSlots :
              ( /\ Contains(run.pre_attrs[s], AbsPath(s))
                /\ ~Contains(run.pre_attrs[s], description_expression_string) )
              => EachReplaced(attrs[s], description_expression_string, AbsPath(s))
                      = run.pre_attrs[s]
        /\ \A c \in SceneCollections :
              ( /\ Contains(run.pre_xg[c], Root)
                /\ ~Contains(run.pre_xg[c], project_expression_string) )
              => EachReplaced(xgDataPath[c], project_expression_string, Root) = run.pre_xg[c]

C5_Witness ==
    /\ Completed
    /\ run.mode = RELATIVE
    /\ \E s \in SceneSlots :
          /\ Contains(run.pre_attrs[s], AbsPath(s))
          /\ ~Contains(run.pre_attrs[s], description_expression_string)
          /\ Contains(attrs[s], description_expression_string)
          /\ ~Contains(attrs[s], AbsPath(s))
    /\ \E c \in SceneCollections :
          /\ Contains(run.pre_xg[c], Root)
          /\ ~Contains(run.pre_xg[c], project_expression_string)
          /\ Contains(xgDataPath[c], project_expression_string)

\* a call in mode EXPLICIT followed by a call in mode RELATIVE, or by a
\* second call in mode EXPLICIT, with the same project_path
ExplicitThenRelative ==
    TwoCalls /\ SamePath /\ prev.mode = EXPLICIT /\ run.mode = RELATIVE
ExplicitTwice ==
    TwoCalls /\ SamePath /\ prev.mode = EXPLICIT /\ run.mode = EXPLICIT

\* C1 as stated: EXPLICIT then RELATIVE with the same project_path leaves
\* every value that held exactly one placeholder instance equal to its value
\* before the two calls.
C1_RoundTrip ==
    ExplicitThenRelative =>
        /\ \A s \in SceneSlots :
              CountOcc(prev.pre_attrs[s], description_expression_string) = 1 =>
                  attrs[s] = prev.pre_attrs[s]
        /\ \A c \in SceneCollections :
              CountOcc(prev.pre_xg[c], project_expression_string) = 1 =>
                  xgDataPath[c] = prev.pre_xg[c]

\* C1 amended: EXPLICIT then RELATIVE with the same project_path leaves a
\* value equal to its value before the two calls when that value held
\* exactly one placeholder instance and its explicit form (the value between
\* the two calls) holds exactly one instance of the absolute path.
C1_RoundTripOnePath ==
    ExplicitThenRelative =>
        /\ \A s \in SceneSlots :
              ( /\ CountOcc(prev.pre_attrs[s], description_expression_string) = 1
                /\ HasRoot => CountOcc(run.pre_attrs[s], AbsPath(s)) = 1 )
              => attrs[s] = prev.pre_attrs[s]
        /\ \A c \in SceneCollections :
              ( /\ CountOcc(prev.pre_xg[c], project_expression_string) = 1
                /\ HasRoot => CountOcc(run.pre_xg[c], Root) = 1 )
              => xgDataPath[c] = prev.pre_xg[c]

C1_Witness ==
    /\ ExplicitThenRelative
    /\ prev.outcome = "ok"
    /\ Completed
    /\ \E s \in SceneSlots :
          /\ CountOcc(prev.pre_attrs[s], description_expression_string) = 1
          /\ CountOcc(run.pre_attrs[s], AbsPath(s)) = 1
          /\ run.pre_attrs[s] # prev.pre_attrs[s]
          /\ attrs[s] = prev.pre_attrs[s]
    /\ \E c \in SceneCollections :
          /\ CountOcc(prev.pre_xg[c], project_expression_string) = 1
          /\ CountOcc(run.pre_xg[c], Root) = 1
          /\ run.pre_xg[c] # prev.pre_xg[c]
          /\ xgDataPath[c] = prev.pre_xg[c]

\* C10 as stated: a second call in mode EXPLICIT with the same project_path
\* leaves every value equal to its value after the first call.
C10_ExplicitIdempotent ==
    ExplicitTwice => Unchanged

\* C10 amended: a second call in mode EXPLICIT with the same project_path
\* leaves a value equal to its value after the first call when the string
\* substituted for its placeholder (root_path for xgDataPath, the absolute
\* path for an object attribute) contains neither "$" nor "}".
C10_ExplicitIdempotentPlain ==
    ExplicitTwice =>
        /\ \A s \in SceneSlots :
              (HasRoot => Plain(AbsPath(s))) => attrs[s] = run.pre_attrs[s]
        /\ \A c \in SceneCollections :
              (HasRoot => Plain(Root)) => xgDataPath[c] = run.pre_xg[c]

C10_Witness ==
    /\ ExplicitTwice
    /\ prev.outcome = "ok"
    /\ Completed
    /\ Plain(Root)
    /\ \E s \in SceneSlots :
          /\ run.pre_attrs[s] # prev.pre_attrs[s]
          /\ attrs[s] = run.pre_attrs[s]
    /\ \E c \in SceneCollections :
          /\ run.pre_xg[c] # prev.pre_xg[c]
          /\ xgDataPath[c] = run.pre_xg[c]

====
